---- MODULE Spec2Model ----
(***************************************************************************)
(* Currency-conversion tool: the query parser and resolution trace of      *)
(* src/src/conversion_tools.py and the caching CurrencyTool of             *)
(* src/utils/conversion_tools.py.                                          *)
(*                                                                         *)
(* A query text is a sequence of lowercase words separated by single       *)
(* spaces.  The regular expressions of CONVERT_PATTERNS are evaluated on   *)
(* that word sequence with Python's leftmost / greedy semantics.  No word  *)
(* of Phrases contains "to" or "in" as a proper substring, so the          *)
(* separators of the patterns only ever match whole words.                 *)
(***************************************************************************)
EXTENDS Integers, Sequences, FiniteSets, TLC

VARIABLES
    \* src/src/conversion_tools.py
    query,          \* the text handed to the parser
    intent,         \* what parse_currency_query returned for it
    useConv,        \* what should_use_conversion returned for it
    trace,          \* _RESOLUTION_TRACE
    apiKey,         \* EXCHANGERATE_API_KEY
    result,         \* the outcome of the last perform_conversion call
    \* two queries running concurrently
    pc,             \* where each query stands
    job,            \* each query's text, intent and fetched rate
    own,            \* (history) the lines each query wrote since its parse began
    seen,           \* the trace each query read at its end
    \* src/utils/conversion_tools.py, one CurrencyTool
    clock,          \* _now()
    ttl,            \* self.ttl
    fiatCache,      \* self._fiat_cache
    cryptoCache,    \* self._crypto_cache
    okAt,           \* (history) per cache key, time and value of the last successful fetch
    last            \* (history) the last call: its arguments, start time and outcome

parserVars == <<query, intent, useConv, trace, apiKey, result>>

concVars == <<pc, job, own, seen>>

toolVars == <<clock, ttl, fiatCache, cryptoCache, okAt, last>>

vars == <<query, intent, useConv, trace, apiKey, result, pc, job, own, seen,
          clock, ttl, fiatCache, cryptoCache, okAt, last>>

None == "None"

NoAmount == -1

\* ------------------------------------------------------------------ bounds

MaxChunks == 3

\* ------------------------------------------------------------- vocabulary

Phrases ==
    { <<"convert", "5">>, <<"5">>, <<"usd">>, <<"btc">>, <<"hello">>,
      <<"to", "cad">>, <<"in", "usd">>, <<"btc", "price">>, <<"rate", "for">>,
      <<"exchange", "rate">>, <<"what", "is", "the">> }

RECURSIVE TextsOf(_)
TextsOf(n) ==
    IF n = 0 THEN { <<>> }
    ELSE LET shorter == TextsOf(n - 1)
         IN  shorter \cup { t \o p : t \in shorter, p \in Phrases }

Texts == TextsOf(MaxChunks)

\* NUM_RE: the only number word of the vocabulary, and its value
IsNum(w) == w = "5"

NumValue(w) == 5

\* the character class [A-Za-z$...  ] of the src/dst groups: every other word
IsClass(w) == ~IsNum(w)

WordLen(w) ==
    CASE w \in {"5"} -> 1
      [] w \in {"to", "in", "is", "of"} -> 2
      [] w \in {"usd", "cad", "btc", "for", "the", "eur", "thb"} -> 3
      [] w \in {"rate", "what"} -> 4
      [] w \in {"hello", "price"} -> 5
      [] w \in {"convert", "bitcoin", "current"} -> 7
      [] w \in {"exchange"} -> 8

ALIASES ==
    [w \in {"usd", "eur", "thb", "cad", "btc", "bitcoin"} |->
        CASE w = "usd" -> "USD"
          [] w = "eur" -> "EUR"
          [] w = "thb" -> "THB"
          [] w = "cad" -> "CAD"
          [] w \in {"btc", "bitcoin"} -> "BTC"]

Upper(w) ==
    CASE w = "for" -> "FOR"
      [] w = "the" -> "THE"
      [] w = "usd" -> "USD"
      [] w = "cad" -> "CAD"
      [] w = "btc" -> "BTC"
      [] w = "eur" -> "EUR"
      [] w = "thb" -> "THB"

\* _norm_code on a capture, given as the words it spans (surrounding blanks
\* are stripped by the code; a capture of several words has an inner blank,
\* is no alias and is not three letters)
_norm_code(raw) ==
    IF Len(raw) # 1 THEN None
    ELSE LET s == raw[1]
         IN  IF s \in DOMAIN ALIASES THEN ALIASES[s]
             ELSE IF WordLen(s) = 3 /\ IsClass(s) THEN Upper(s)
             ELSE None

\* _parse_amount: the first number anywhere in the text
_parse_amount(text) ==
    LET N == { i \in 1..Len(text) : IsNum(text[i]) }
    IN  IF N = {} THEN NoAmount
        ELSE NumValue(text[CHOOSE i \in N : \A j \in N : i <= j])

\* ------------------------------------------------------- CONVERT_PATTERNS

ToIn == {"to", "in"}

WordAt(ws, i) == IF i \in 1..Len(ws) THEN ws[i] ELSE ""

MaxOf(S) == CHOOSE x \in S : \A y \in S : y <= x

MinOf(S) == CHOOSE x \in S : \A y \in S : x <= y

\* last word of the run of character-class words that starts at word a
\* (a - 1 when word a is a number or is past the end)
RunEnd(ws, a) ==
    LET B == { b \in a..Len(ws) : \A i \in a..b : IsClass(ws[i]) }
    IN  IF B = {} THEN a - 1 ELSE MaxOf(B)

\* number of characters of words a..b joined by single blanks
RECURSIVE JoinLen(_, _, _)
JoinLen(ws, a, b) ==
    IF b < a THEN 0
    ELSE IF a = b THEN WordLen(ws[a])
    ELSE WordLen(ws[a]) + 1 + JoinLen(ws, a + 1, b)

NoMatch == [m |-> FALSE, src |-> <<>>, hasDst |-> FALSE, dst |-> <<>>]

Captured(src, dst) == [m |-> TRUE, src |-> src, hasDst |-> TRUE, dst |-> dst]

\* (?P<src>[..]+)\s+(?:to|in)\s+(?P<dst>[..]+) with src starting at word a:
\* the greedy src backs off to the last separator of the run that is
\* followed by a word of the run; dst takes the rest of the run
PairTail(ws, a) ==
    LET b == RunEnd(ws, a)
        K == { k \in (a + 1)..(b - 1) : ws[k] \in ToIn }
    IN  IF K = {} THEN NoMatch
        ELSE LET k == MaxOf(K)
             IN  Captured(SubSeq(ws, a, k - 1), SubSeq(ws, k + 1, b))

\* CURR_RE with src starting at word a: src{1,20} \s* (to|in) \s* dst{1,20};
\* src holds at most 20 characters, and dst may be the blank before a number
CurrTail(ws, a) ==
    LET b == RunEnd(ws, a)
        K == { k \in (a + 1)..b :
                 /\ ws[k] \in ToIn
                 /\ k < Len(ws)
                 /\ JoinLen(ws, a, k - 1) <= 20 }
    IN  IF K = {} THEN NoMatch
        ELSE LET k == MaxOf(K)
             IN  Captured(SubSeq(ws, a, k - 1), SubSeq(ws, k + 1, b))

\* the leftmost start position of Starts, and the match found there
Leftmost(Starts, MatchAt(_)) ==
    IF Starts = {} THEN NoMatch ELSE MatchAt(MinOf(Starts))

\* pattern 1: (?:convert|exchange)\s+NUM\s+src\s+(?:to|in)\s+dst
Search1(ws) ==
    LET T(j) == PairTail(ws, j + 2)
        S == { j \in 1..Len(ws) :
                 /\ ws[j] \in {"convert", "exchange"}
                 /\ IsNum(WordAt(ws, j + 1))
                 /\ T(j).m }
    IN  Leftmost(S, T)

\* pattern 2: NUM\s+src\s+(?:to|in)\s+dst
Search2(ws) ==
    LET T(j) == PairTail(ws, j + 1)
        S == { j \in 1..Len(ws) : IsNum(ws[j]) /\ T(j).m }
    IN  Leftmost(S, T)

\* pattern 3: rate\s+for\s+CURR_RE
Search3(ws) ==
    LET T(j) == CurrTail(ws, j + 2)
        S == { j \in 1..Len(ws) :
                 /\ ws[j] = "rate"
                 /\ WordAt(ws, j + 1) = "for"
                 /\ T(j).m }
    IN  Leftmost(S, T)

\* pattern 4: exchange\s+rate\s+CURR_RE
Search4(ws) ==
    LET T(j) == CurrTail(ws, j + 2)
        S == { j \in 1..Len(ws) :
                 /\ ws[j] = "exchange"
                 /\ WordAt(ws, j + 1) = "rate"
                 /\ T(j).m }
    IN  Leftmost(S, T)

\* pattern 5: (?P<src>btc|bitcoin)\s+price(?:\s+in\s+(?P<dst>[A-Za-z]+))?
Search5(ws) ==
    LET T(j) ==
            IF WordAt(ws, j + 2) = "in" /\ j + 3 <= Len(ws) /\ IsClass(WordAt(ws, j + 3))
            THEN Captured(<<ws[j]>>, <<ws[j + 3]>>)
            ELSE [m |-> TRUE, src |-> <<ws[j]>>, hasDst |-> FALSE, dst |-> <<>>]
        S == { j \in 1..Len(ws) :
                 ws[j] \in {"btc", "bitcoin"} /\ WordAt(ws, j + 1) = "price" }
    IN  Leftmost(S, T)

\* pattern 6: what(?:'s|\s+is)?\s+the\s+(?:current\s+)?(exchange\s+)?
\*            rate\s+for\s+(?P<src>btc|bitcoin)
Search6(ws) ==
    LET the(j) == IF WordAt(ws, j + 1) = "is" THEN j + 2 ELSE j + 1
        cur(j) == IF WordAt(ws, the(j) + 1) = "current" THEN the(j) + 2 ELSE the(j) + 1
        rate(j) == IF WordAt(ws, cur(j)) = "exchange" THEN cur(j) + 1 ELSE cur(j)
        T(j) == [m |-> TRUE, src |-> <<ws[rate(j) + 2]>>, hasDst |-> FALSE, dst |-> <<>>]
        S == { j \in 1..Len(ws) :
                 /\ ws[j] = "what"
                 /\ WordAt(ws, the(j)) = "the"
                 /\ WordAt(ws, rate(j)) = "rate"
                 /\ WordAt(ws, rate(j) + 1) = "for"
                 /\ WordAt(ws, rate(j) + 2) \in {"btc", "bitcoin"} }
    IN  Leftmost(S, T)

\* pattern 7: src\s+(?:to|in)\s+dst
Search7(ws) ==
    LET T(j) == PairTail(ws, j)
        S == { j \in 1..Len(ws) : IsClass(ws[j]) /\ T(j).m }
    IN  Leftmost(S, T)

NumPatterns == 7

CONVERT_PATTERNS(i, ws) ==
    CASE i = 1 -> Search1(ws)
      [] i = 2 -> Search2(ws)
      [] i = 3 -> Search3(ws)
      [] i = 4 -> Search4(ws)
      [] i = 5 -> Search5(ws)
      [] i = 6 -> Search6(ws)
      [] i = 7 -> Search7(ws)

\* ---------------------------------------------------- parse_currency_query

NoIntent == [found |-> FALSE, rule |-> 0, amount |-> NoAmount, src |-> None, dst |-> None]

\* the body of the for loop once pattern i has been searched (m) and the
\* amount parsed (amt0): the intent it returns, or NoIntent when the loop
\* goes on to the next pattern
LoopBody(i, m, amt0) ==
    LET src == _norm_code(m.src)
        dst0 == IF m.hasDst THEN _norm_code(m.dst) ELSE None
        dst == IF src = "BTC" /\ dst0 = None THEN "USD" ELSE dst0
        amt == IF src # None /\ dst # None /\ amt0 = NoAmount THEN 1 ELSE amt0
    IN  IF ~m.m THEN NoIntent
        ELSE IF src # None /\ (dst # None \/ src = "BTC")
        THEN [found |-> TRUE, rule |-> i, amount |-> amt, src |-> src, dst |-> dst]
        ELSE NoIntent

\* one round of the for loop, for pattern i
TryPattern(i, text) == LoopBody(i, CONVERT_PATTERNS(i, text), _parse_amount(text))

\* the loop returns at the first pattern that matches, accepted or not
RECURSIVE ParseFrom_first_match(_, _)
ParseFrom_first_match(i, text) ==
    IF i > NumPatterns THEN NoIntent
    ELSE IF CONVERT_PATTERNS(i, text).m THEN TryPattern(i, text)
    ELSE ParseFrom_first_match(i + 1, text)

\* the for loop from pattern i on
RECURSIVE ParseFrom(_, _)
ParseFrom(i, text) ==
    IF i > NumPatterns THEN NoIntent
    ELSE LET r == TryPattern(i, text)
         IN  IF r.found THEN r ELSE ParseFrom(i + 1, text)

\* the return value of parse_currency_query (rule: the winning pattern)
parse_currency_query(text) == ParseFrom(1, text)

\* ------------------------------------------------------ should_use_conversion

HasWordBeforeBlank(text, w) == \E i \in 1..(Len(text) - 1) : text[i] = w

HasWordAfterBlank(text, w) == \E i \in 2..Len(text) : text[i] = w

HasPair(text, v, w) == \E i \in 1..(Len(text) - 1) : text[i] = v /\ text[i + 1] = w

Symbols == {"$"}

should_use_conversion(text) ==
    \/ \E w \in {"convert", "exchange"} : HasWordBeforeBlank(text, w)
    \/ HasPair(text, "exchange", "rate")
    \/ HasPair(text, "rate", "for")
    \/ HasPair(text, "price", "of")
    \/ \E w \in {"usd", "eur", "thb", "jpy", "cny", "inr", "gbp", "btc", "bitcoin"} :
          HasWordAfterBlank(text, w)
    \/ \E i \in 2..(Len(text) - 1) :
          text[i] = "to" /\ text[i + 1] \in {"thb", "usd", "eur", "btc"}
    \/ \E i \in 1..Len(text) : text[i] \in Symbols


\* ----------------------------------------------------- the resolution trace

\* a trace line: the message, and (history) who wrote it: the query that
\* wrote it, or 0 once a later parse_currency_query call has started
Line(by, msg) == [by |-> by, msg |-> msg]

\* the list is left as it is
reset_resolution_trace_keep(tr) == tr

reset_resolution_trace(tr) == <<>>

_t(tr, by, msg) == Append(tr, Line(by, msg))

get_resolution_trace(tr) == tr

ParsingLine(text) == <<"Parsing query", text>>

\* the line parse_currency_query writes when it returns r
ReturnLine(r) ==
    IF r.found THEN <<"Detected", r.src, r.dst, r.amount>>
    ELSE <<"No currency pattern matched.">>

\* parse_currency_query returning r: what it returns and the trace it leaves
ParseEnd(tr, by, r) == [ret |-> r, trace |-> _t(tr, by, ReturnLine(r))]

\* parse_currency_query as a whole
ParseRun(tr, by, text) ==
    ParseEnd(_t(reset_resolution_trace(tr), by, ParsingLine(text)), by,
             parse_currency_query(text))

\* ------------------------------------------------------- perform_conversion

FIAT ==
    {"USD", "EUR", "THB", "GBP", "JPY", "CNY", "INR", "KRW", "VND", "MYR", "PHP",
     "CHF", "CAD", "AUD", "SGD", "HKD", "IDR", "NZD", "SEK", "NOK", "DKK"}

\* what one HTTP request may yield: a transport or HTTP error, a body
\* without the expected field, or a rate
Rates == {2, 4}

Error == [kind |-> "error", rate |-> 0]

Bad == [kind |-> "bad", rate |-> 0]

Good(rate) == [kind |-> "ok", rate |-> rate]

Responses == {Error, Bad} \cup { Good(r) : r \in Rates }

\* the outcome of a fetch helper: the lines it traced, whether it raised,
\* the (rate, source) it returned, and the number of HTTP requests it sent
Raised(tr, net, err) ==
    [trace |-> tr, ok |-> FALSE, rate |-> 0, source |-> None, net |-> net, err |-> err]

Fetched(tr, net, rate, source) ==
    [trace |-> tr, ok |-> TRUE, rate |-> rate, source |-> source, net |-> net, err |-> None]

_fetch_fiat_rate(tr, by, key, src, dst, resp) ==
    IF key = "" THEN Raised(tr, 0, "Missing EXCHANGERATE_API_KEY")
    ELSE IF src = dst THEN Fetched(tr, 0, 1, "EXR (pair, same-currency)")
    ELSE LET t1 == _t(tr, by, <<"GET", "ExchangeRate-API", src, dst>>)
         IN  IF resp.kind = "error" THEN Raised(t1, 1, "HTTPError")
             ELSE IF resp.kind = "bad" THEN Raised(t1, 1, "ExchangeRate-API error")
             ELSE Fetched(t1, 1, resp.rate, "ExchangeRate-API")

_fetch_btc_to_fiat(tr, by, dst, resp) ==
    LET t1 == _t(tr, by, <<"GET", "CoinGecko", "BTC", dst>>)
    IN  IF resp.kind = "error" THEN Raised(t1, 1, "HTTPError")
        ELSE IF resp.kind = "bad" THEN Raised(t1, 1, "CoinGecko: no price")
        ELSE Fetched(t1, 1, resp.rate, "CoinGecko")

_fetch_rate(tr, by, key, src, dst, resp) ==
    IF src = "BTC" /\ dst \in FIAT THEN _fetch_btc_to_fiat(tr, by, dst, resp)
    ELSE IF src \in FIAT /\ dst \in FIAT THEN _fetch_fiat_rate(tr, by, key, src, dst, resp)
    ELSE Raised(tr, 0, "Unsupported currency pair")

\* _smart_round keeps between 2 and 6 decimals; the rates and amounts of the
\* model are whole numbers, which it returns unchanged
_smart_round(x) == x

NoResult ==
    [op |-> "none", amount |-> NoAmount, src |-> None, dst |-> None, ok |-> FALSE,
     rate |-> 0, converted |-> 0, source |-> None, net |-> 0, err |-> None,
     resp |-> Error]

\* perform_conversion as a whole (the timestamp of the result is left out)
PerformRun(tr, by, key, amount, src, dst0, resp) ==
    LET t1 == _t(tr, by, <<"Performing conversion", amount, src, dst0>>)
        dst == IF dst0 = None THEN (IF src = "BTC" THEN "USD" ELSE "THB") ELSE dst0
        t2 == IF dst0 = None THEN _t(t1, by, <<"No dst provided; default dst", dst>>) ELSE t1
        f == _fetch_rate(t2, by, key, src, dst, resp)
        amt == IF amount = NoAmount THEN 1 ELSE amount
        res == [op |-> "perform_conversion", amount |-> amt, src |-> src, dst |-> dst,
                ok |-> TRUE, rate |-> f.rate, converted |-> _smart_round(f.rate * amt),
                source |-> f.source, net |-> f.net, err |-> None, resp |-> resp]
    IN  IF f.ok
        THEN [trace |-> _t(f.trace, by, <<"Result", amt, src, dst, f.rate>>), res |-> res]
        ELSE [trace |-> f.trace,
              res |-> [op |-> "perform_conversion", amount |-> amount, src |-> src,
                       dst |-> dst, ok |-> FALSE, rate |-> 0, converted |-> 0,
                       source |-> None, net |-> f.net, err |-> f.err, resp |-> resp]]


\* ==================================================== CurrencyTool (utils)

MaxTime == 3

\* the ttl_seconds the tool is constructed with: an entry is fresh one
\* second after its fetch and stale two seconds after it
TtlChoices == {2}

\* seconds one HTTP request may take
Delays == {0, 1}

\* rate tables the fiat provider may answer with, whatever the base
Table1 == [c \in {"USD", "THB"} |-> IF c = "USD" THEN 2 ELSE 3]

Table2 == [c \in {"USD"} |-> 4]

Table3 == [c \in {} |-> 0]

FiatTables == {Table1, Table2, Table3}

\* a "rates" value that is no mapping (JSON null), kept as a value of the
\* tables' type whose only key is no currency code
NotAMapping == [c \in {"null"} |-> 0]

\* an HTTP or transport error, a body without "rates", a body whose "rates"
\* is no mapping, or a body with a rate table
FiatResponses ==
    { [kind |-> k, rates |-> Table3] : k \in {"error", "bad"} }
        \cup { [kind |-> "notmap", rates |-> NotAMapping] }
        \cup { [kind |-> "ok", rates |-> tb] : tb \in FiatTables }

\* the body passes raise_for_status, the success test and data["rates"]
HasRates(resp) == resp.kind \in {"ok", "notmap"}

\* the same for the price endpoint
CryptoResponses == Responses

_SYMBOL_TO_CODE == [c \in {"$"} |-> "USD"]

_ALIAS_TO_CODE ==
    [w \in {"usd", "eur", "thb", "btc", "bitcoin"} |->
        CASE w = "usd" -> "USD"
          [] w = "eur" -> "EUR"
          [] w = "thb" -> "THB"
          [] w \in {"btc", "bitcoin"} -> "BTC"]

\* str.lower / str.upper on the tokens and codes of the model
Lower(x) ==
    CASE x \in {"USD", "usd"} -> "usd"
      [] x \in {"EUR", "eur"} -> "eur"
      [] x \in {"THB", "thb"} -> "thb"
      [] x \in {"BTC", "btc"} -> "btc"
      [] x \in {"XAU", "xau"} -> "xau"
      [] OTHER -> x

ToUpper(x) ==
    CASE Lower(x) = "xau" -> "XAU"
      [] OTHER -> x

\* len(token) == 3 and token.isalpha()
ThreeLetters(token) == Lower(token) \in {"usd", "eur", "thb", "btc", "xau"}

normalize_code(token) ==
    IF token = "" THEN None
    ELSE IF token \in DOMAIN _SYMBOL_TO_CODE THEN _SYMBOL_TO_CODE[token]
    ELSE IF Lower(token) \in DOMAIN _ALIAS_TO_CODE THEN _ALIAS_TO_CODE[Lower(token)]
    ELSE IF ThreeLetters(token) THEN ToUpper(token)
    ELSE None

\* a dict with key k set to v
Put(d, k, v) == [x \in (DOMAIN d) \cup {k} |-> IF x = k THEN v ELSE d[x]]

EmptyDict == [x \in {} |-> 0]

\* the tool's state while a call runs: the two caches, the wall clock and
\* (history) per cache key the time and value of its last successful fetch
ToolState(fiat, crypto, now, ok) ==
    [fiat |-> fiat, crypto |-> crypto, now |-> now, okAt |-> ok]

\* the comparison turned around: entries count as fresh once they are old
Fresh_inverted(cached, now, ttlSeconds) == now - cached.t > ttlSeconds

\* an entry exactly ttl old still counts as fresh
Fresh_inclusive(cached, now, ttlSeconds) == now - cached.t <= ttlSeconds

\* the cache test of _fetch_fiat_rates and get_btc_rate
Fresh(cached, now, ttlSeconds) == now - cached.t < ttlSeconds

\* the outcome of a call: the state it leaves, whether it returned, its
\* return value, the error kind, and (history) the keys it sent requests
\* for and the values its fetches returned, in order
Outcome(st, ok, ret, err, nets, used) ==
    [st |-> st, ok |-> ok, ret |-> ret, err |-> err, nets |-> nets, used |-> used]

\* _fetch_fiat_rates(base): every outcome the provider allows
_fetch_fiat_rates(st, ttlSeconds, base) ==
    IF base \in DOMAIN st.fiat /\ Fresh(st.fiat[base], st.now, ttlSeconds)
    THEN { Outcome(st, TRUE, st.fiat[base].rates, None, <<>>, <<st.fiat[base].rates>>) }
    ELSE { IF HasRates(resp)
           THEN Outcome(ToolState(Put(st.fiat, base, [t |-> st.now + d, rates |-> resp.rates]),
                                  st.crypto, st.now + d,
                                  Put(st.okAt, base, [t |-> st.now + d, val |-> resp.rates])),
                        TRUE, resp.rates, None, <<base>>, <<resp.rates>>)
           ELSE Outcome([st EXCEPT !.now = st.now + d], FALSE, EmptyDict, "provider",
                        <<base>>, <<>>)
         : resp \in FiatResponses, d \in { x \in Delays : st.now + x <= MaxTime } }

\* the USD leg is dropped
Triangulate_usd_only(usd_rate, usd_to_target) == usd_to_target

\* 1 base = (base->USD) * (USD->target)
Triangulate(usd_rate, usd_to_target) == usd_rate * usd_to_target

\* get_fiat_rate(base, target)
get_fiat_rate(st, ttlSeconds, base, target) ==
    IF base = target THEN { Outcome(st, TRUE, 1, None, <<>>, <<>>) }
    ELSE UNION {
        IF ~f1.ok THEN { [f1 EXCEPT !.ret = 0] }
        ELSE IF f1.ret = NotAMapping
        THEN { [f1 EXCEPT !.ok = FALSE, !.ret = 0, !.err = "type"] }
        ELSE IF target \in DOMAIN f1.ret
        THEN { [f1 EXCEPT !.ret = f1.ret[target]] }
        ELSE IF "USD" \in DOMAIN f1.ret
        THEN { IF ~f2.ok
               THEN Outcome(f2.st, FALSE, 0, f2.err, f1.nets \o f2.nets, f1.used)
               ELSE IF f2.ret = NotAMapping
               THEN Outcome(f2.st, FALSE, 0, "type", f1.nets \o f2.nets,
                            f1.used \o f2.used)
               ELSE IF target \notin DOMAIN f2.ret
               THEN Outcome(f2.st, FALSE, 0, "unsupported", f1.nets \o f2.nets,
                            f1.used \o f2.used)
               ELSE Outcome(f2.st, TRUE, Triangulate(f1.ret["USD"], f2.ret[target]), None,
                            f1.nets \o f2.nets, f1.used \o f2.used)
             : f2 \in _fetch_fiat_rates(f1.st, ttlSeconds, "USD") }
        ELSE { [f1 EXCEPT !.ok = FALSE, !.ret = 0, !.err = "unsupported"] }
      : f1 \in _fetch_fiat_rates(st, ttlSeconds, base) }

\* the key f"{cg_id}|{cg_vs}"
CryptoKey(vs_code) ==
    CASE Lower(vs_code) = "eur" -> "bitcoin|eur"
      [] Lower(vs_code) = "usd" -> "bitcoin|usd"
      [] Lower(vs_code) = "thb" -> "bitcoin|thb"

\* get_btc_rate(vs_code)
get_btc_rate(st, ttlSeconds, vs_code) ==
    LET key == CryptoKey(vs_code)
    IN  IF key \in DOMAIN st.crypto /\ Fresh(st.crypto[key], st.now, ttlSeconds)
        THEN { Outcome(st, TRUE, st.crypto[key].price, None, <<>>, <<st.crypto[key].price>>) }
        ELSE { IF resp.kind = "ok"
               THEN Outcome(ToolState(st.fiat,
                                      Put(st.crypto, key, [t |-> st.now + d, price |-> resp.rate]),
                                      st.now + d,
                                      Put(st.okAt, key, [t |-> st.now + d, val |-> resp.rate])),
                            TRUE, resp.rate, None, <<key>>, <<resp.rate>>)
               ELSE Outcome([st EXCEPT !.now = st.now + d], FALSE, 0, "provider",
                            <<key>>, <<>>)
             : resp \in CryptoResponses, d \in { x \in Delays : st.now + x <= MaxTime } }

\* a rate or an amount as a fraction num / den (1 / price is not a whole number)
Frac(num, den) == [num |-> num, den |-> den]

Times(x, r) == Frac(x * r.num, r.den)

NoConversion == [converted |-> Frac(0, 1), rate |-> Frac(0, 1), source |-> None]

\* convert(amount, from_code, to_code): returns (converted, rate, source)
convert(st, ttlSeconds, amount, from_code, to_code) ==
    LET f == normalize_code(from_code)
        t == normalize_code(to_code)
        Wrap(o, rate, source) ==
            IF o.ok
            THEN [o EXCEPT !.ret = [converted |-> Times(amount, rate), rate |-> rate,
                                    source |-> source]]
            ELSE [o EXCEPT !.ret = NoConversion]
    IN  IF f = None \/ t = None
        THEN { Outcome(st, FALSE, NoConversion, "unknown currency", <<>>, <<>>) }
        ELSE IF f = "BTC" /\ t # "BTC"
        THEN { Wrap(o, Frac(o.ret, 1), "CoinGecko") : o \in get_btc_rate(st, ttlSeconds, t) }
        ELSE IF t = "BTC" /\ f # "BTC"
        THEN { Wrap(o, Frac(1, o.ret), "CoinGecko") : o \in get_btc_rate(st, ttlSeconds, f) }
        ELSE IF f = "BTC" /\ t = "BTC"
        THEN { Outcome(st, TRUE, [converted |-> Frac(amount, 1), rate |-> Frac(1, 1),
                                  source |-> "CoinGecko"], None, <<>>, <<>>) }
        ELSE { Wrap(o, Frac(o.ret, 1), "exchangerate.host")
               : o \in get_fiat_rate(st, ttlSeconds, f, t) }


\* ------------------------------------------------ CurrencyTool: the calls

Bases == {"EUR", "USD"}

Targets == {"THB", "EUR"}

VsCodes == {"EUR"}

ConvertAmounts == {2}

ConvertPairs ==
    { <<"EUR", "THB">>, <<"$", "THB">>, <<"eur", "EUR">>, <<"BTC", "EUR">>,
      <<"EUR", "bitcoin">>, <<"btc", "BTC">>, <<"euro", "EUR">> }

NoCall ==
    [op |-> "none", args |-> <<>>, start |-> 0, before |-> "n/a", ok |-> FALSE, ret |-> 0,
     err |-> None, nets |-> <<>>, used |-> <<>>]

\* (history) how a key's cache entry stood when a call began
Before(cache, key) ==
    IF key \notin DOMAIN cache THEN "absent"
    ELSE IF clock - cache[key].t < ttl THEN "fresh" ELSE "stale"

ToolInit ==
    /\ clock = 0
    /\ ttl \in TtlChoices
    /\ fiatCache = EmptyDict
    /\ cryptoCache = EmptyDict
    /\ okAt = EmptyDict
    /\ last = NoCall

\* the tool is not used
ToolIdle ==
    /\ clock = 0
    /\ ttl = 1
    /\ fiatCache = EmptyDict
    /\ cryptoCache = EmptyDict
    /\ okAt = EmptyDict
    /\ last = NoCall

Now == ToolState(fiatCache, cryptoCache, clock, okAt)

\* one call of the tool: it ends in one of its outcomes
Call(op, args, before, outcomes) ==
    \E o \in outcomes :
        /\ clock' = o.st.now
        /\ fiatCache' = o.st.fiat
        /\ cryptoCache' = o.st.crypto
        /\ okAt' = o.st.okAt
        /\ last' = [op |-> op, args |-> args, start |-> clock, before |-> before,
                    ok |-> o.ok, ret |-> o.ret, err |-> o.err, nets |-> o.nets,
                    used |-> o.used]
        /\ UNCHANGED ttl

\* time passes between calls
Tick ==
    /\ clock < MaxTime
    /\ clock' = clock + 1
    /\ UNCHANGED <<ttl, fiatCache, cryptoCache, okAt, last>>
    /\ UNCHANGED <<parserVars, concVars>>

FetchFiatRates ==
    /\ \E base \in Bases :
          Call("_fetch_fiat_rates", <<base>>, Before(fiatCache, base),
               _fetch_fiat_rates(Now, ttl, base))
    /\ UNCHANGED <<parserVars, concVars>>

GetFiatRate ==
    /\ \E base \in Bases, target \in Targets :
          Call("get_fiat_rate", <<base, target>>, "n/a",
               get_fiat_rate(Now, ttl, base, target))
    /\ UNCHANGED <<parserVars, concVars>>

GetBtcRate ==
    /\ \E vs \in VsCodes :
          Call("get_btc_rate", <<CryptoKey(vs)>>, Before(cryptoCache, CryptoKey(vs)),
               get_btc_rate(Now, ttl, vs))
    /\ UNCHANGED <<parserVars, concVars>>

Convert ==
    /\ \E amount \in ConvertAmounts, p \in ConvertPairs :
          Call("convert", <<amount, p[1], p[2]>>, "n/a",
               convert(Now, ttl, amount, p[1], p[2]))
    /\ UNCHANGED <<parserVars, concVars>>

ParserIdle ==
    /\ query = <<>>
    /\ intent = [done |-> FALSE, ret |-> NoIntent]
    /\ useConv = [done |-> FALSE, ret |-> FALSE]
    /\ trace = <<>>
    /\ apiKey = ""
    /\ result = NoResult

ConcIdle ==
    /\ pc = <<>>
    /\ job = <<>>
    /\ own = <<>>
    /\ seen = <<>>

InitTool == ToolInit /\ ParserIdle /\ ConcIdle

NextTool == Tick \/ FetchFiatRates \/ GetFiatRate \/ GetBtcRate \/ Convert

SpecTool == InitTool /\ [][NextTool]_vars


\* ------------------------------------------------ CurrencyTool: the claims

FetchOps == {"_fetch_fiat_rates", "get_btc_rate"}

\* this step is a call of the tool (a Tick leaves last as it is)
IsCall == IF last'.op = last.op THEN last' # last ELSE TRUE

\* what a call of the tool changes unless it repeats the call before it
callVars ==
    <<clock, fiatCache, cryptoCache, okAt,
      last.op, last.args, last.start, last.before, last.ok, last.err, last.nets>>

Count(k, seq) == Cardinality({ i \in 1..Len(seq) : seq[i] = k })

\* two successive convert calls with the same arguments, the second ending
\* within ttl of the start of the first
TwoConverts ==
    /\ IsCall
    /\ last.op = "convert"
    /\ last'.op = "convert"
    /\ last'.args = last.args
    /\ clock' - last.start < ttl

\* no cache key was requested more than once by the two calls together
OneFetchPerKey ==
    LET nets == last.nets \o last'.nets
    IN  \A i \in 1..Len(nets) : Count(nets[i], nets) <= 1

C2_RefetchAfterTtl ==
    [][ /\ \A k \in DOMAIN fiatCache :
              ( /\ IsCall
                /\ last'.op = "_fetch_fiat_rates"
                /\ last'.args = <<k>>
                /\ clock - fiatCache[k].t >= ttl )
              => ( /\ last'.nets = <<k>>
                   /\ last'.ok =>
                        /\ last'.ret = okAt'[k].val
                        /\ okAt'[k].t = clock'
                        /\ fiatCache'[k] = [t |-> clock', rates |-> last'.ret] )
        /\ \A k \in DOMAIN cryptoCache :
              ( /\ IsCall
                /\ last'.op = "get_btc_rate"
                /\ last'.args = <<k>>
                /\ clock - cryptoCache[k].t >= ttl )
              => ( /\ last'.nets = <<k>>
                   /\ last'.ok =>
                        /\ last'.ret = okAt'[k].val
                        /\ okAt'[k].t = clock'
                        /\ cryptoCache'[k] = [t |-> clock', price |-> last'.ret] )
      ]_callVars

\* an expired entry was fetched again and its slot overwritten with another value
C2_Witness ==
    /\ last.op = "get_btc_rate"
    /\ last.before = "stale"
    /\ last.ok
    /\ last.nets = last.args
    /\ cryptoCache[last.args[1]] = [t |-> clock, price |-> last.ret]

\* C3: get_fiat_rate(base, target), base # target, target not in the table
\* of base (the tables obtained being mappings): with USD in the base table at r1 and target in the USD table at
\* r2 the result is r1 * r2, the USD table being obtained after the base
\* table; with USD missing from the base table or target missing from the
\* USD table the call fails as unsupported and returns no rate.
C3_Triangulation ==
    ( /\ last.op = "get_fiat_rate"
      /\ last.args[1] # last.args[2]
      /\ Len(last.used) >= 1
      /\ \A i \in 1..Len(last.used) : last.used[i] # NotAMapping
      /\ last.args[2] \notin DOMAIN last.used[1] )
    => LET base == last.args[1]
           target == last.args[2]
           rates == last.used[1]
       IN  IF "USD" \notin DOMAIN rates
           THEN ~last.ok /\ last.err = "unsupported" /\ Len(last.used) = 1
           ELSE /\ last.nets \in {<<>>, <<base>>, <<"USD">>, <<base, "USD">>}
                /\ IF Len(last.used) = 1
                   THEN ~last.ok /\ last.err = "provider"
                   ELSE IF target \in DOMAIN last.used[2]
                   THEN last.ok /\ last.ret = rates["USD"] * last.used[2][target]
                   ELSE ~last.ok /\ last.err = "unsupported"

\* EUR -> THB through USD: 4 * 3
C3_Witness ==
    /\ last.op = "get_fiat_rate"
    /\ last.ok
    /\ Len(last.used) = 2
    /\ last.args = <<"EUR", "THB">>
    /\ last.ret = 12

\* a _fetch_fiat_rates / get_btc_rate call that raised left both caches as
\* they were
FailureKeepsCaches ==
    (IsCall /\ last'.op \in FetchOps /\ ~last'.ok)
        => (fiatCache' = fiatCache /\ cryptoCache' = cryptoCache)

\* a body without a rates mapping gave _fetch_fiat_rates nothing to return
\* and nothing to store
NoValueWithoutMapping ==
    (IsCall /\ last'.op = "_fetch_fiat_rates")
        => /\ last'.ok => last'.ret # NotAMapping
           /\ \A k \in DOMAIN fiatCache' : fiatCache'[k].rates # NotAMapping

\* C11: a _fetch_fiat_rates / get_btc_rate call whose request fails, or is
\* answered without the rates mapping or the price, raises, returns no value
\* and leaves both caches as they were; a slot never holds anything but the
\* rates or price of a successful response.
C11_FailedFetch == [][FailureKeepsCaches /\ NoValueWithoutMapping]_callVars

\* what does hold: a call that raised left both caches as they were
C11_RaisedKeepsCaches == [][FailureKeepsCaches]_callVars

\* a stale entry outlived a failed request for its key
C11_StaleKept ==
    /\ last.op \in FetchOps
    /\ last.before = "stale"
    /\ ~last.ok
    /\ last.nets = last.args
    /\ \/ last.args[1] \in DOMAIN fiatCache
       \/ last.args[1] \in DOMAIN cryptoCache


\* ======================================== the parser and the pre-filter

\* no query has been handled yet
NotParsed == [done |-> FALSE, ret |-> NoIntent]

NotFiltered == [done |-> FALSE, ret |-> FALSE]

\* (history) lines written before the parse that is starting are re-tagged 0
Aged(tr) == [i \in 1..Len(tr) |-> Line(0, tr[i].msg)]

\* a parse_currency_query call has ended as r
Parsed(r) ==
    /\ intent' = [done |-> TRUE, ret |-> r.ret]
    /\ trace' = r.trace

InitParse ==
    /\ query \in Texts
    /\ intent = NotParsed
    /\ useConv = NotFiltered
    /\ trace = <<>>
    /\ apiKey = ""
    /\ result = NoResult
    /\ ConcIdle
    /\ ToolIdle

\* parse_currency_query(query)
ParseQuery ==
    /\ ~intent.done
    /\ Parsed(ParseRun(Aged(trace), 1, query))
    /\ UNCHANGED <<query, useConv, apiKey, result>>
    /\ UNCHANGED <<concVars, toolVars>>

\* should_use_conversion(query)
ShouldUse ==
    /\ ~useConv.done
    /\ useConv' = [done |-> TRUE, ret |-> should_use_conversion(query)]
    /\ UNCHANGED <<query, intent, trace, apiKey, result>>
    /\ UNCHANGED <<concVars, toolVars>>

NextParse == ParseQuery \/ ShouldUse

SpecParse == InitParse /\ [][NextParse]_vars


\* ------------------------------------------------------ the parser: the claims

\* pattern i matches text and its tokens normalize to an acceptable pair
Accepted(i, text) ==
    LET m == CONVERT_PATTERNS(i, text)
    IN  /\ m.m
        /\ _norm_code(m.src) # None
        /\ \/ m.hasDst /\ _norm_code(m.dst) # None
           \/ _norm_code(m.src) = "BTC"

\* pattern i matches text
Matches(i, text) == CONVERT_PATTERNS(i, text).m

\* C5: parse_currency_query returns the intent of the first pattern, in list
\* order, whose source is resolved and whose destination is resolved or whose
\* source is BTC, passing over patterns that match without satisfying that;
\* it returns none only when no pattern does; a returned intent has a
\* resolved source.
C5_PatternCascade ==
    intent.done =>
        LET A == { i \in 1..NumPatterns : Accepted(i, query) }
        IN  IF A = {}
            THEN ~intent.ret.found
            ELSE LET m == CONVERT_PATTERNS(MinOf(A), query)
                 IN  /\ intent.ret.found
                     /\ intent.ret.rule = MinOf(A)
                     /\ intent.ret.src = _norm_code(m.src)
                     /\ intent.ret.src # None
                     /\ \/ m.hasDst /\ intent.ret.dst = _norm_code(m.dst)
                        \/ intent.ret.src = "BTC" /\ intent.ret.dst = "USD"

\* an earlier pattern matched, was passed over, and a later one won
C5_Witness ==
    /\ intent.done
    /\ intent.ret.found
    /\ \E i \in 1..(intent.ret.rule - 1) : Matches(i, query) /\ ~Accepted(i, query)

\* C7: whenever parse_currency_query returns an intent for a text,
\* should_use_conversion is true of that text.
C7_PrefilterAdmits ==
    (intent.done /\ intent.ret.found) => should_use_conversion(query)

\* the patterns without an amount group
NoAmountGroup == {3, 4, 5, 6, 7}

\* C8: the intent of a pattern without an amount group has amount 1, and so
\* has an intent with a currency pair for which no number was captured.
C8_AmountDefault ==
    (intent.done /\ intent.ret.found)
        => /\ intent.ret.rule \in NoAmountGroup => intent.ret.amount = 1
           /\ _parse_amount(query) = NoAmount => intent.ret.amount = 1


\* ============================== parse and convert calls, one after another

MaxTrace == 6

SeqTexts == { <<"usd", "to", "cad">>, <<"5", "btc", "price">>, <<"hello">> }

ApiKeys == {"", "k"}

Amounts == {NoAmount, 2}

Sources == {"USD", "BTC"}

Dests == {None, "USD", "BTC"}

\* a perform_conversion call has ended as r
Performed(r) ==
    /\ trace' = r.trace
    /\ result' = r.res

InitSeq ==
    /\ query = <<>>
    /\ intent = NotParsed
    /\ useConv = NotFiltered
    /\ trace = <<>>
    /\ apiKey \in ApiKeys
    /\ result = NoResult
    /\ ConcIdle
    /\ ToolIdle

\* a call parse_currency_query(text)
SeqParse ==
    /\ \E text \in SeqTexts :
          /\ query' = text
          /\ Parsed(ParseRun(Aged(trace), 1, text))
    /\ UNCHANGED <<useConv, apiKey, result>>
    /\ UNCHANGED <<concVars, toolVars>>

\* a call perform_conversion(amount, src, dst); it returns or raises
SeqConvert ==
    /\ Len(trace) + 4 <= MaxTrace
    /\ \E amount \in Amounts, src \in Sources, dst \in Dests, resp \in Responses :
          Performed(PerformRun(trace, 1, apiKey, amount, src, dst, resp))
    /\ UNCHANGED <<query, intent, useConv, apiKey>>
    /\ UNCHANGED <<concVars, toolVars>>

NextSeq == SeqParse \/ SeqConvert

SpecSeq == InitSeq /\ [][NextSeq]_vars


\* ------------------------------------------- calls one after another: the claims

\* C6: once parse_currency_query has been called, whatever parse and convert
\* calls came before and whatever convert calls came after, the trace
\* get_resolution_trace returns begins with the "Parsing query" line of the
\* latest parse call and holds no line written before that call started.
C6_TraceReset ==
    intent.done =>
        LET tr == get_resolution_trace(trace)
        IN  /\ Len(tr) >= 1
            /\ tr[1].msg[1] = "Parsing query"
            /\ tr[1].msg[2] = query
            /\ \A i \in 1..Len(tr) : tr[i].by # 0

\* a convert call had written its lines, a parse call followed, and only
\* the two lines of that parse are left
C6_Witness ==
    /\ intent.done
    /\ result.op = "perform_conversion"
    /\ Len(trace) = 2
    /\ \A i \in 1..Len(trace) : trace[i].msg[1] # "Performing conversion"

\* C4: perform_conversion with source = destination = X, X a fiat code or
\* BTC, succeeds with rate 1 and the input amount as converted amount and
\* sends no request, with or without an API key; and so does
\* CurrencyTool.convert.
C4_SameCurrency ==
    /\ ( /\ result.op = "perform_conversion"
         /\ result.src = result.dst
         /\ result.src \in FIAT \cup {"BTC"} )
       => ( /\ result.ok
            /\ result.rate = 1
            /\ result.converted = result.amount
            /\ result.net = 0 )
    /\ ( /\ last.op = "convert"
         /\ normalize_code(last.args[2]) # None
         /\ normalize_code(last.args[2]) = normalize_code(last.args[3]) )
       => ( /\ last.ok
            /\ last.ret.rate = Frac(1, 1)
            /\ last.ret.converted = Frac(last.args[1], 1)
            /\ last.nets = <<>> )

\* C9: perform_conversion from a fiat source F to BTC succeeds with the
\* inverse of the BTC price in F as rate, taken from the crypto provider with
\* one request; and so does CurrencyTool.convert.
C9_FiatToCrypto ==
    /\ ( /\ result.op = "perform_conversion"
         /\ result.src \in FIAT
         /\ result.dst = "BTC"
         /\ result.resp.kind = "ok" )
       => ( /\ result.ok
            /\ result.source = "CoinGecko"
            /\ result.net = 1
            /\ result.rate * result.resp.rate = 1 )
    /\ ( /\ last.op = "convert"
         /\ normalize_code(last.args[2]) \notin {None, "BTC"}
         /\ normalize_code(last.args[3]) = "BTC"
         /\ last.ok )
       => ( /\ Len(last.used) = 1
            /\ last.ret.rate = Frac(1, last.used[1])
            /\ last.ret.source = "CoinGecko"
            /\ \A i \in 1..Len(last.nets) : last.nets[i] \notin Bases )


\* ================================================= two queries at a time

Queries == {1, 2}

ConcTexts == { <<"usd", "to", "cad">>, <<"btc", "price">>, <<"hello">> }

\* a query before its first step
NewJob(text) == [text |-> text, intent |-> NoIntent, rate |-> 0]

InitConc ==
    /\ query = <<>>
    /\ intent = NotParsed
    /\ useConv = NotFiltered
    /\ trace = <<>>
    /\ apiKey \in ApiKeys
    /\ result = NoResult
    /\ pc = [q \in Queries |-> "reset"]
    /\ job \in [Queries -> { NewJob(text) : text \in ConcTexts }]
    /\ own = [q \in Queries |-> <<>>]
    /\ seen = [q \in Queries |-> <<>>]
    /\ ToolIdle

\* query q moves on to step next, leaving the shared list as tr; the lines
\* it added are its own
Step(q, next, tr, mine) ==
    /\ pc' = [pc EXCEPT ![q] = next]
    /\ trace' = tr
    /\ own' = [own EXCEPT ![q] = mine]
    /\ UNCHANGED <<query, intent, useConv, apiKey, result, seen>>
    /\ UNCHANGED toolVars

Added(q, tr) == own[q] \o SubSeq(tr, Len(trace) + 1, Len(tr))

\* parse_currency_query: reset_resolution_trace()
ConcReset ==
    \E q \in Queries :
        /\ pc[q] = "reset"
        /\ Step(q, "log_parse", reset_resolution_trace(trace), <<>>)
        /\ UNCHANGED job

\* parse_currency_query: _t("Parsing query: ...")
ConcLogParse ==
    \E q \in Queries :
        /\ pc[q] = "log_parse"
        /\ Step(q, "match", _t(trace, q, ParsingLine(job[q].text)),
                Append(own[q], Line(q, ParsingLine(job[q].text))))
        /\ UNCHANGED job

\* the query's intent is r: the last line of parse_currency_query, and its return
Matched(q, r) ==
    /\ Step(q, IF r.found THEN "log_conv" ELSE "read",
            ParseEnd(trace, q, r).trace, Append(own[q], Line(q, ReturnLine(r))))
    /\ job' = [job EXCEPT ![q].intent = r]

\* parse_currency_query: the for loop
ConcMatch ==
    \E q \in Queries :
        /\ pc[q] = "match"
        /\ Matched(q, parse_currency_query(job[q].text))

\* the first line of perform_conversion for intent r
PerformingLine(r) == <<"Performing conversion", r.amount, r.src, r.dst>>

\* perform_conversion: _t("Performing conversion ...") (the intents of the
\* parser carry a destination)
ConcLogConv ==
    \E q \in Queries :
        /\ pc[q] = "log_conv"
        /\ Step(q, "fetch", _t(trace, q, PerformingLine(job[q].intent)),
                Append(own[q], Line(q, PerformingLine(job[q].intent))))
        /\ UNCHANGED job

\* _fetch_rate has ended as f
Fetch(q, f) ==
    /\ Step(q, IF f.ok THEN "log_result" ELSE "read", f.trace, Added(q, f.trace))
    /\ job' = [job EXCEPT ![q].rate = f.rate]

\* perform_conversion: rate, source = _fetch_rate(src, dst)
ConcFetch ==
    \E q \in Queries, resp \in Responses :
        /\ pc[q] = "fetch"
        /\ Fetch(q, _fetch_rate(trace, q, apiKey, job[q].intent.src, job[q].intent.dst, resp))

\* the last line of perform_conversion
ResultLine(j) == <<"Result", j.intent.amount, j.intent.src, j.intent.dst, j.rate>>

\* perform_conversion: _t("Result: ...")
ConcLogResult ==
    \E q \in Queries :
        /\ pc[q] = "log_result"
        /\ Step(q, "read", _t(trace, q, ResultLine(job[q])),
                Append(own[q], Line(q, ResultLine(job[q]))))
        /\ UNCHANGED job

\* the query reads get_resolution_trace()
ConcRead ==
    \E q \in Queries :
        /\ pc[q] = "read"
        /\ pc' = [pc EXCEPT ![q] = "done"]
        /\ seen' = [seen EXCEPT ![q] = get_resolution_trace(trace)]
        /\ UNCHANGED <<query, intent, useConv, trace, apiKey, result, job, own>>
        /\ UNCHANGED toolVars

NextConc ==
    \/ ConcReset
    \/ ConcLogParse
    \/ ConcMatch
    \/ ConcLogConv
    \/ ConcFetch
    \/ ConcLogResult
    \/ ConcRead

SpecConc == InitConc /\ [][NextConc]_vars

\* C10: with two queries running at a time, the trace a query reads after
\* its own parse and convert holds all the lines that query wrote and no
\* line written by the other query.
C10_IndependentTraces ==
    \A q \in Queries :
        pc[q] = "done" =>
            /\ \A i \in 1..Len(own[q]) : \E j \in 1..Len(seen[q]) : seen[q][j] = own[q][i]
            /\ \A j \in 1..Len(seen[q]) : seen[q][j].by = q
====
